---- MODULE Spec2Model ----
(***************************************************************************)
(* A model of src/utils/defaultPlugin.ts, the default ("Rollup Core")      *)
(* plugin: the resolveId hook (createResolveId, addJsExtensionIfNecessary, *)
(* findFile) stepped probe by probe over a small filesystem, and the       *)
(* code-generation hooks resolveAssetUrl, resolveImportMeta and            *)
(* resolveDynamicImport.                                                   *)
(*                                                                         *)
(* A path is a sequence of one-character strings, so that basename,        *)
(* dirname, resolve, the appended extensions, importee[0] and the case     *)
(* folding of a case-insensitive filesystem are all computed.              *)
(* Generated code is an ordinary string.                                   *)
(***************************************************************************)
EXTENDS Integers, Sequences, FiniteSets, TLC

VARIABLES
    \* the environment of a build (fixed during a behaviour)
    fs,               \* the entries of directory /d: name -> entry
    caseInsensitive,  \* whether the filesystem folds case in lookups
    preserveSymlinks, \* options.preserveSymlinks
    hasProcess,       \* typeof process !== 'undefined'
    fault,            \* the one probe (operation, path) that raises an I/O error
    \* one call of resolveId
    pc,               \* where the call is
    importee,         \* its first argument
    importer,         \* its second argument (NoImporter for an entry point)
    base,             \* the path handed to addJsExtensionIfNecessary
    idx,              \* which of the three candidates is being verified
    file,             \* the argument of the current findFile invocation
    depth,            \* nesting of findFile invocations for this candidate
    nFind,            \* findFile invocations made by this call
    ret,              \* what findFile returned to addJsExtensionIfNecessary
    probes,           \* the filesystem probes of this call, in order
    found,            \* per candidate: what findFile returned for it
    result,           \* what resolveId returned
    outcome,          \* "none" | "returned" | "raised"
    \* the other hooks
    hook,             \* the last hook call: its name and arguments
    hookResult,       \* what it returned
    hookRaised,       \* whether it threw
    ctxCalls,         \* the calls it made on the plugin context, in order
    external          \* the orchestrator's externality predicate: the external specifiers

envVars  == <<fs, caseInsensitive, preserveSymlinks, hasProcess, fault>>
callVars == <<pc, importee, importer, base, idx, file, depth, nFind, ret, probes,
              found, result, outcome>>
hookVars == <<hook, hookResult, hookRaised, ctxCalls, external>>
vars     == <<envVars, callVars, hookVars>>

----------------------------------------------------------------------------
(* Bounds *)

\* at most this many names exist in directory /d
MaxEntries == 3

----------------------------------------------------------------------------
(* Values *)

\* JavaScript's undefined and null, and a path, as values a hook returns
Undefined == [tag |-> "undefined", path |-> <<>>]
Null == [tag |-> "null", path |-> <<>>]
PathValue(p) == [tag |-> "path", path |-> p]

\* `if (found)`: a non-empty string is truthy, undefined is not
Truthy(v) == v.tag = "path" /\ v.path # <<>>

\* the importer of an entry point
NoImporter == <<"undefined">>

----------------------------------------------------------------------------
(* Paths: ./path *)

RECURSIVE SplitFrom(_, _, _)
\* the segments of p: done are those closed by a '/', cur the one being read
SplitFrom(p, done, cur) ==
    IF p = <<>> THEN Append(done, cur)
    ELSE IF Head(p) = "/" THEN SplitFrom(Tail(p), Append(done, cur), <<>>)
    ELSE SplitFrom(Tail(p), done, Append(cur, Head(p)))

\* p.split('/')
Segments(p) == SplitFrom(p, <<>>, <<>>)

RECURSIVE NormalizeSegs(_, _)
\* drops '' and '.', and lets '..' remove the segment before it
NormalizeSegs(segs, acc) ==
    IF segs = <<>> THEN acc
    ELSE LET s == Head(segs) IN
         NormalizeSegs(Tail(segs),
             IF s = <<>> \/ s = <<".">> THEN acc
             ELSE IF s = <<".", ".">>
                  THEN (IF acc = <<>> THEN acc ELSE SubSeq(acc, 1, Len(acc) - 1))
                  ELSE Append(acc, s))

RECURSIVE JoinSegs(_)
JoinSegs(segs) ==
    IF segs = <<>> THEN <<>> ELSE <<"/">> \o Head(segs) \o JoinSegs(Tail(segs))

\* isAbsolute(path): the path starts with '/'
isAbsolute(p) == Len(p) > 0 /\ p[1] = "/"

\* process.cwd()
Cwd == <<"/", "d">>

\* resolve(from, to), right to left until the path is absolute, then normalized
resolve(from, to) ==
    LET joined == IF isAbsolute(to) THEN to
                  ELSE IF isAbsolute(from) THEN from \o <<"/">> \o to
                  ELSE Cwd \o <<"/">> \o from \o <<"/">> \o to
        segs == NormalizeSegs(Segments(joined), <<>>)
    IN  IF segs = <<>> THEN <<"/">> ELSE JoinSegs(segs)

\* the index of the last '/' of p, 0 when it has none
LastSlash(p) ==
    LET at == {i \in 1..Len(p) : p[i] = "/"} IN
    IF at = {} THEN 0 ELSE CHOOSE i \in at : \A j \in at : j <= i

\* basename(path) of a path without trailing slashes
basename(p) == SubSeq(p, LastSlash(p) + 1, Len(p))

\* dirname(path) of a path without trailing slashes
dirname(p) ==
    LET k == LastSlash(p) IN
    IF k = 0 THEN <<".">> ELSE IF k = 1 THEN <<"/">> ELSE SubSeq(p, 1, k - 1)

----------------------------------------------------------------------------
(* The filesystem: ./fs, the synchronous probes of the host. An entry is *)
(* looked up by name, with the case folded on a case-insensitive        *)
(* filesystem; a directory's listing gives the names as they are spelled. *)
(* realpathSync follows a chain of links to its end and raises on a       *)
(* missing entry and on a chain that comes back to a link already seen.   *)

DirD == <<"/", "d">>
NameA == <<"a">>
NameMjs == <<"a", ".", "m", "j", "s">>
NameJs == <<"a", ".", "j", "s">>
NameT == <<"t">>
Names == {NameA, NameMjs, NameJs, NameT}

Absent == [kind |-> "absent", target |-> <<>>]
RegularFile == [kind |-> "file", target |-> <<>>]
Directory == [kind |-> "dir", target |-> <<>>]
LinkTo(n) == [kind |-> "link", target |-> n]

\* what each name of /d may be
Allowed(n) ==
    IF n = NameT
    THEN {Absent, RegularFile, Directory, LinkTo(NameT), LinkTo(NameA), LinkTo(NameJs)}
    ELSE IF n = NameA
    THEN {Absent, RegularFile, Directory, LinkTo(NameT)}
    ELSE {Absent, RegularFile, LinkTo(NameT)}

Present(f) == {n \in Names : f[n].kind # "absent"}

FsChoices ==
    {f \in [Names -> UNION {Allowed(n) : n \in Names}] :
        /\ \A n \in Names : f[n] \in Allowed(n)
        /\ Cardinality(Present(f)) <= MaxEntries}

NoFault == [op |-> "none", path |-> <<>>]
FaultChoices ==
    {NoFault,
     [op |-> "lstat", path |-> DirD \o <<"/">> \o NameA],
     [op |-> "lstat", path |-> DirD \o <<"/">> \o NameT],
     [op |-> "readdir", path |-> DirD]}

Faulty(op, p) == fault.op = op /\ fault.path = p

\* the lower-case form of a character
Lower(c) == IF c = "A" THEN "a" ELSE IF c = "D" THEN "d" ELSE IF c = "T" THEN "t" ELSE c
Fold(p) == [i \in 1..Len(p) |-> Lower(p[i])]

\* whether a lookup of x finds the entry spelled y
SameName(x, y) == x = y \/ (caseInsensitive /\ Fold(x) = Fold(y))

\* the entry a path names, without following a link
Lookup(p) ==
    IF p = <<"/">> \/ SameName(p, DirD)
    THEN [ok |-> TRUE, kind |-> "dir", target |-> <<>>, real |-> IF p = <<"/">> THEN p ELSE DirD]
    ELSE IF SameName(dirname(p), DirD)
            /\ \E n \in Present(fs) : SameName(basename(p), n)
    THEN LET n == CHOOSE m \in Present(fs) : SameName(basename(p), m) IN
         [ok |-> TRUE, kind |-> fs[n].kind, target |-> fs[n].target,
          real |-> DirD \o <<"/">> \o n]
    ELSE [ok |-> FALSE, kind |-> "absent", target |-> <<>>, real |-> <<>>]

\* lstatSync(path): raises (err) on a missing entry or an I/O error
lstatSync(p) ==
    LET e == Lookup(p) IN
    IF Faulty("lstat", p) \/ ~e.ok
    THEN [err |-> TRUE, isFile |-> FALSE, isSymbolicLink |-> FALSE]
    ELSE [err |-> FALSE, isFile |-> e.kind = "file", isSymbolicLink |-> e.kind = "link"]

RECURSIVE FollowLinks(_, _)
\* follows links from p; raises on a missing entry (ENOENT) and on a link seen before (ELOOP)
FollowLinks(p, seen) ==
    LET e == Lookup(p) IN
    IF ~e.ok THEN [err |-> TRUE, path |-> <<>>]
    ELSE IF e.kind = "link"
    THEN IF e.real \in seen THEN [err |-> TRUE, path |-> <<>>]
         ELSE FollowLinks(resolve(dirname(e.real), e.target), seen \cup {e.real})
    ELSE [err |-> FALSE, path |-> e.real]

\* realpathSync(path)
realpathSync(p) ==
    IF Faulty("realpath", p) THEN [err |-> TRUE, path |-> <<>>] ELSE FollowLinks(p, {})

\* readdirSync(dir)
readdirSync(d) ==
    IF Faulty("readdir", d) THEN [err |-> TRUE, files |-> {}]
    ELSE IF d = <<"/">> THEN [err |-> FALSE, files |-> {<<"d">>}]
    ELSE IF SameName(d, DirD) THEN [err |-> FALSE, files |-> Present(fs)]
    ELSE [err |-> TRUE, files |-> {}]

----------------------------------------------------------------------------
(* resolveId *)

MJS == <<".", "m", "j", "s">>
JS == <<".", "j", "s">>

\* faulty variant: .js is tried before .mjs
CandidateJsFirst(b, i) == IF i = 1 THEN b ELSE IF i = 2 THEN b \o JS ELSE b \o MJS

\* the three paths addJsExtensionIfNecessary hands to findFile, in order
Candidate(b, i) == IF i = 1 THEN b ELSE IF i = 2 THEN b \o MJS ELSE b \o JS

\* the specifiers and importers of the calls
Importees ==
    {<<".", "/", "a">>, <<".", "/", "A">>, <<"/", "d", "/", "a">>, <<"a">>}
Importers == {NoImporter, <<"/", "d", "/", "m">>}

\* `importee[0] !== '.'`
FirstCharIsDot(s) == Len(s) > 0 /\ s[1] = "."

\* faulty variant: the test of the first character is inverted
SkippedAsExternalDotInverted(s, r) == r # NoImporter /\ ~isAbsolute(s) /\ FirstCharIsDot(s)

\* line 67: the specifier of an external module
SkippedAsExternal(s, r) == r # NoImporter /\ ~isAbsolute(s) /\ ~FirstCharIsDot(s)

\* line 74: the path the extensions are added to
BasePath(s, r) ==
    resolve(IF r # NoImporter /\ r # <<>> THEN dirname(r) ELSE resolve(<<>>, <<>>), s)

\* faulty variant: the specifier is tested before the environment
EntryDecisionSpecifierFirst ==
    IF SkippedAsExternal(importee, importer) THEN "null"
    ELSE IF ~hasProcess THEN "raise"
    ELSE "resolve"

\* lines 57-67, in the order the code tests: the environment, then the specifier
EntryDecision ==
    IF ~hasProcess THEN "raise"
    ELSE IF SkippedAsExternal(importee, importer) THEN "null"
    ELSE "resolve"

\* faulty variant: the link is followed whatever the option says
DereferenceAlways(stats) == stats.isSymbolicLink

\* line 32: the link is followed
Dereference(stats) == ~preserveSymlinks /\ stats.isSymbolicLink

\* line 34: the entry is one whose name's case is checked
CheckCase(stats) == (preserveSymlinks /\ stats.isSymbolicLink) \/ stats.isFile

\* faulty variant: findFile is invoked on the link again
RecursionOnLink(real) == file

\* line 33: the argument of the nested findFile invocation
RecursionArgument(real) == real.path

\* a probe of the call's log
Probe(op, p) == [op |-> op, path |-> p, cand |-> idx]

\* error(...) of ./error: throws the error it is given, so the call ends there
error(code) == [pc |-> "done", outcome |-> "raised", result |-> [tag |-> code, path |-> <<>>]]

\* nothing returned yet
NoResult == [tag |-> "none", path |-> <<>>]
NoFound == [i \in 1..3 |-> NoResult]

\* faulty variant: no catch block: the error leaves resolveId
Propagate ==
    [pc |-> "done", outcome |-> "raised", ret |-> NoResult,
     result |-> [tag |-> "EIO", path |-> <<>>]]

\* lines 41-43, the catch block of findFile: the error is dropped, and findFile
\* falls off its end and returns undefined to addJsExtensionIfNecessary
Suppress == [pc |-> "ret", outcome |-> "none", ret |-> Undefined, result |-> NoResult]

\* a call of resolveId(importee, importer) begins
Call(s, r) ==
    /\ pc \in {"idle", "done"}
    /\ pc' = "entry"
    /\ importee' = s
    /\ importer' = r
    /\ base' = <<>>
    /\ idx' = 0
    /\ file' = <<>>
    /\ depth' = 0
    /\ nFind' = 0
    /\ ret' = NoResult
    /\ probes' = <<>>
    /\ found' = NoFound
    /\ result' = NoResult
    /\ outcome' = "none"
    /\ UNCHANGED <<envVars, hookVars>>

\* lines 56-76: the environment check, the external-module check, and the
\* first findFile invocation of addJsExtensionIfNecessary (line 47)
ResolveIdEntry ==
    /\ pc = "entry"
    /\ IF EntryDecision = "raise"
       THEN /\ pc' = error("MISSING_PROCESS").pc
            /\ outcome' = error("MISSING_PROCESS").outcome
            /\ result' = error("MISSING_PROCESS").result
            /\ UNCHANGED <<base, idx, file, depth, nFind>>
       ELSE IF EntryDecision = "null"
       THEN /\ pc' = "done"
            /\ outcome' = "returned"
            /\ result' = Null
            /\ UNCHANGED <<base, idx, file, depth, nFind>>
       ELSE /\ pc' = "lstat"
            /\ base' = BasePath(importee, importer)
            /\ idx' = 1
            /\ file' = Candidate(BasePath(importee, importer), 1)
            /\ depth' = 1
            /\ nFind' = nFind + 1
            /\ UNCHANGED <<outcome, result>>
    /\ UNCHANGED <<importee, importer, ret, probes, found, envVars, hookVars>>

\* findFile returns v to addJsExtensionIfNecessary
Return(v) ==
    /\ pc' = "ret"
    /\ ret' = v
    /\ UNCHANGED <<file, depth, nFind, outcome, result>>

\* a probe raised inside findFile's try block
Raised ==
    /\ pc' = Suppress.pc
    /\ outcome' = Suppress.outcome
    /\ result' = Suppress.result
    /\ ret' = Suppress.ret
    /\ UNCHANGED <<file, depth, nFind>>

\* lines 31-34: the status lookup and what it decides
LstatStep ==
    /\ pc = "lstat"
    /\ probes' = Append(probes, Probe("lstat", file))
    /\ LET stats == lstatSync(file) IN
       IF stats.err THEN Raised
       ELSE IF Dereference(stats)
       THEN /\ pc' = "realpath"
            /\ UNCHANGED <<file, depth, nFind, ret, outcome, result>>
       ELSE IF CheckCase(stats)
       THEN /\ pc' = "readdir"
            /\ UNCHANGED <<file, depth, nFind, ret, outcome, result>>
       ELSE Return(Undefined)
    /\ UNCHANGED <<importee, importer, base, idx, found, envVars, hookVars>>

\* line 33: findFile(realpathSync(file), preserveSymlinks)
RealpathStep ==
    /\ pc = "realpath"
    /\ probes' = Append(probes, Probe("realpath", file))
    /\ LET real == realpathSync(file) IN
       IF real.err THEN Raised
       ELSE /\ pc' = "lstat"
            /\ file' = RecursionArgument(real)
            /\ depth' = depth + 1
            /\ nFind' = nFind + 1
            /\ UNCHANGED <<ret, outcome, result>>
    /\ UNCHANGED <<importee, importer, base, idx, found, envVars, hookVars>>

\* lines 36-39: the case check against the directory's listing
ReaddirStep ==
    /\ pc = "readdir"
    /\ probes' = Append(probes, Probe("readdir", dirname(file)))
    /\ LET name == basename(file)
           files == readdirSync(dirname(file))
       IN  IF files.err THEN Raised
           ELSE IF name \in files.files THEN Return(PathValue(file))
           ELSE Return(Undefined)
    /\ UNCHANGED <<importee, importer, base, idx, found, envVars, hookVars>>

\* lines 47-52: addJsExtensionIfNecessary takes findFile's result, and
\* line 73: resolveId returns what it returns
AddJsExtensionStep ==
    /\ pc = "ret"
    /\ found' = [found EXCEPT ![idx] = ret]
    /\ IF Truthy(ret) \/ idx = 3
       THEN /\ pc' = "done"
            /\ outcome' = "returned"
            /\ result' = ret
            /\ UNCHANGED <<idx, file, depth, nFind>>
       ELSE /\ pc' = "lstat"
            /\ idx' = idx + 1
            /\ file' = Candidate(base, idx + 1)
            /\ depth' = 1
            /\ nFind' = nFind + 1
            /\ UNCHANGED <<outcome, result>>
    /\ UNCHANGED <<importee, importer, base, ret, probes, envVars, hookVars>>

----------------------------------------------------------------------------
(* The code-generation hooks and resolveDynamicImport *)

\* JavaScript values of the hooks: a string, undefined, null, a syntax node
Str(t) == [kind |-> "string", text |-> t]
JsUndefined == [kind |-> "undefined", text |-> ""]
JsNull == [kind |-> "null", text |-> ""]
AstNode == [kind |-> "node", text |-> ""]

\* what a hook call ends with
Returns(v) == [raised |-> FALSE, value |-> v]
TypeError == [raised |-> TRUE, value |-> JsUndefined]

\* line 80; the default of the second parameter is 'URL'
getResolveUrl(path, URL) == "new " \o URL \o "(" \o path \o ").href"

\* lines 82-83
getUrlFromDocument(chunkId) ==
    "(document.currentScript && document.currentScript.src || new URL('"
        \o chunkId \o "', document.baseURI).href)"

\* lines 85-99: the keys of the table
ImportMetaFormats == {"amd", "cjs", "iife", "system", "umd"}

\* lines 85-99: the entry of a format, applied to a chunk
importMetaUrlMechanisms(format, chunkId) ==
    CASE format = "amd" -> getResolveUrl("module.uri, document.baseURI", "URL")
      [] format \in {"cjs", "umd"} ->
            "(typeof document === 'undefined' ? "
                \o getResolveUrl("'file:' + __filename", "(require('u' + 'rl').URL)")
                \o " : " \o getUrlFromDocument(chunkId) \o ")"
      [] format = "iife" -> getUrlFromDocument(chunkId)
      [] format = "system" -> "module.meta.url"

\* lines 101-104
getRelativeUrlFromDocument(relativePath) ==
    getResolveUrl(
        "(document.currentScript && document.currentScript.src || document.baseURI) + '/../"
            \o relativePath \o "'", "URL")

\* lines 106-121: the keys of the table
AssetUrlFormats == {"amd", "cjs", "es", "iife", "system", "umd"}

\* lines 106-121: the entry of a format, applied to a relative path
relativeUrlMechanisms(format, relativePath) ==
    CASE format = "amd" ->
            getResolveUrl("module.uri + '/../" \o relativePath \o "', document.baseURI", "URL")
      [] format \in {"cjs", "umd"} ->
            "(typeof document === 'undefined' ? "
                \o getResolveUrl("'file:' + __dirname + '/" \o relativePath \o "'",
                                 "(require('u' + 'rl').URL)")
                \o " : " \o getRelativeUrlFromDocument(relativePath) \o ")"
      [] format = "es" -> getResolveUrl("'" \o relativePath \o "', import.meta.url", "URL")
      [] format = "iife" -> getRelativeUrlFromDocument(relativePath)
      [] format = "system" ->
            getResolveUrl("'" \o relativePath \o "', module.meta.url", "URL")

\* lines 17-19: the entry is called whether or not the table has one, and
\* calling a missing entry (undefined) is a TypeError
resolveAssetUrl(relativeAssetPath, format) ==
    IF format \in AssetUrlFormats
    THEN Returns(Str(relativeUrlMechanisms(format, relativeAssetPath)))
    ELSE TypeError

\* faulty variant: the object expression is returned for 'url' and the bare
\* expression for null
resolveImportMetaSwapped(prop, chunkId, format) ==
    IF format \in ImportMetaFormats
    THEN LET m == importMetaUrlMechanisms(format, chunkId) IN
         Returns(IF prop = Str("url") THEN Str("({ url: " \o m \o " })")
                 ELSE IF prop = JsNull THEN Str(m)
                 ELSE Str("undefined"))
    ELSE Returns(JsUndefined)

\* faulty variant: the entry is called without testing that the table has it
resolveImportMetaUnguarded(prop, chunkId, format) ==
    IF format \in ImportMetaFormats
    THEN LET m == importMetaUrlMechanisms(format, chunkId) IN
         Returns(IF prop = JsNull THEN Str("({ url: " \o m \o " })")
                 ELSE IF prop = Str("url") THEN Str(m)
                 ELSE Str("undefined"))
    ELSE TypeError

\* lines 20-25
resolveImportMeta(prop, chunkId, format) ==
    LET mechanism == IF format \in ImportMetaFormats
                     THEN Str(importMetaUrlMechanisms(format, chunkId))
                     ELSE JsUndefined
    IN  IF mechanism.kind = "string" /\ mechanism.text # ""
        THEN Returns(IF prop = JsNull THEN Str("({ url: " \o mechanism.text \o " })")
                     ELSE IF prop = Str("url") THEN mechanism
                     ELSE Str("undefined"))
        ELSE Returns(JsUndefined)

\* this.isExternal(id, parentId, isResolved), the orchestrator's predicate
isExternal(id, parentId, isResolved) == id.text \in external

\* faulty variant: the externality test is not negated
ShouldDelegateExternal(specifier, parentId) ==
    specifier.kind = "string" /\ isExternal(specifier, parentId, FALSE)

\* line 14: the test of resolveDynamicImport
ShouldDelegate(specifier, parentId) ==
    specifier.kind = "string" /\ ~isExternal(specifier, parentId, FALSE)

\* the inputs of the hook calls
Formats == AssetUrlFormats \cup {"esm"}
Props == {JsNull, Str("url"), Str("other")}
ChunkIds == {"bundle.js", "c.js"}
AssetPaths == {"img.png", "a/b.txt"}
DynamicSpecifiers == {Str("./a"), Str("lodash"), AstNode}
ParentIds == {"/d/m", "/d/n"}
ContextResults == {Str("/d/a.js"), JsNull}

\* lines 17-19
ResolveAssetUrl(relativeAssetPath, format) ==
    /\ hook' = [name |-> "resolveAssetUrl", arg |-> Str(relativeAssetPath),
                chunkId |-> "", format |-> format]
    /\ hookResult' = resolveAssetUrl(relativeAssetPath, format).value
    /\ hookRaised' = resolveAssetUrl(relativeAssetPath, format).raised
    /\ ctxCalls' = <<>>
    /\ UNCHANGED <<external, envVars, callVars>>

\* lines 20-25
ResolveImportMeta(prop, chunkId, format) ==
    /\ hook' = [name |-> "resolveImportMeta", arg |-> prop,
                chunkId |-> chunkId, format |-> format]
    /\ hookResult' = resolveImportMeta(prop, chunkId, format).value
    /\ hookRaised' = resolveImportMeta(prop, chunkId, format).raised
    /\ ctxCalls' = <<>>
    /\ UNCHANGED <<external, envVars, callVars>>

\* lines 13-16; r is what this.resolveId returns when it is called
ResolveDynamicImport(specifier, parentId, r) ==
    LET asked == IF specifier.kind = "string"
                 THEN << [fn |-> "isExternal", args |-> <<specifier, parentId, FALSE>>,
                          ret |-> JsUndefined] >>
                 ELSE <<>>
    IN  /\ hook' = [name |-> "resolveDynamicImport", arg |-> specifier,
                    chunkId |-> parentId, format |-> ""]
        /\ hookRaised' = FALSE
        /\ IF ShouldDelegate(specifier, parentId)
           THEN /\ ctxCalls' = Append(asked, [fn |-> "resolveId",
                                              args |-> <<specifier, parentId>>,
                                              ret |-> r])
                /\ hookResult' = r
           ELSE /\ ctxCalls' = asked
                /\ hookResult' = JsUndefined
        /\ UNCHANGED <<external, envVars, callVars>>

NoHook == [name |-> "none", arg |-> JsUndefined, chunkId |-> "", format |-> ""]

----------------------------------------------------------------------------
(* Specifications *)

Init ==
    /\ fs \in FsChoices
    /\ caseInsensitive \in BOOLEAN
    /\ preserveSymlinks \in BOOLEAN
    /\ hasProcess \in BOOLEAN
    /\ fault \in FaultChoices
    /\ pc = "idle"
    /\ importee = <<>>
    /\ importer = NoImporter
    /\ base = <<>>
    /\ idx = 0
    /\ file = <<>>
    /\ depth = 0
    /\ nFind = 0
    /\ ret = NoResult
    /\ probes = <<>>
    /\ found = NoFound
    /\ result = NoResult
    /\ outcome = "none"
    /\ hook = NoHook
    /\ hookResult = JsUndefined
    /\ hookRaised = FALSE
    /\ ctxCalls = <<>>
    /\ external = {}

Next ==
    \/ \E s \in Importees, r \in Importers : Call(s, r)
    \/ ResolveIdEntry
    \/ LstatStep
    \/ RealpathStep
    \/ ReaddirStep
    \/ AddJsExtensionStep

Spec == Init /\ [][Next]_vars

\* the hooks alone, over every externality predicate
HookInit ==
    /\ fs = [n \in Names |-> Absent]
    /\ caseInsensitive = FALSE
    /\ preserveSymlinks = FALSE
    /\ hasProcess = TRUE
    /\ fault = NoFault
    /\ pc = "idle"
    /\ importee = <<>>
    /\ importer = NoImporter
    /\ base = <<>>
    /\ idx = 0
    /\ file = <<>>
    /\ depth = 0
    /\ nFind = 0
    /\ ret = NoResult
    /\ probes = <<>>
    /\ found = NoFound
    /\ result = NoResult
    /\ outcome = "none"
    /\ hook = NoHook
    /\ hookResult = JsUndefined
    /\ hookRaised = FALSE
    /\ ctxCalls = <<>>
    /\ external \in SUBSET {"./a", "lodash"}

HookNext ==
    \/ \E p \in AssetPaths, f \in Formats : ResolveAssetUrl(p, f)
    \/ \E p \in Props, c \in ChunkIds, f \in Formats : ResolveImportMeta(p, c, f)
    \/ \E s \in DynamicSpecifiers, i \in ParentIds, r \in ContextResults :
            ResolveDynamicImport(s, i, r)

HookSpec == HookInit /\ [][HookNext]_vars

----------------------------------------------------------------------------
(* The vocabulary of the properties, stated over the filesystem alone *)

\* the path of name n in /d
InD(n) == DirD \o <<"/">> \o n

\* a specifier that is neither absolute nor relative
IsBare(s) == s = <<>> \/ (s[1] # "/" /\ s[1] # ".")

\* the three candidate paths of a composed path P, in the order tried
Candidates(P) == <<P, P \o <<".", "m", "j", "s">>, P \o <<".", "j", "s">>>>

\* the composed path of a call made with an importer
Composed == resolve(dirname(importer), importee)

IsLink(p) == ~lstatSync(p).err /\ lstatSync(p).isSymbolicLink
IsRegular(p) == ~lstatSync(p).err /\ lstatSync(p).isFile

\* the name of p appears, with exactly that case, in the listing of its directory
Listed(p) ==
    LET l == readdirSync(dirname(p)) IN ~l.err /\ basename(p) \in l.files

\* file verification: the path a candidate verifies as, or Undefined
Verification(c) ==
    IF IsLink(c) /\ ~preserveSymlinks
    THEN LET real == realpathSync(c) IN
         IF ~real.err /\ IsRegular(real.path) /\ Listed(real.path)
         THEN PathValue(real.path) ELSE Undefined
    ELSE IF (IsLink(c) \/ IsRegular(c)) /\ Listed(c) THEN PathValue(c)
    ELSE Undefined

\* the candidates of P that pass verification
Passing(P) == {i \in 1..3 : Verification(Candidates(P)[i]) # Undefined}
First(S) == CHOOSE i \in S : \A j \in S : i <= j

\* a call that returned "unresolved"
Unresolved == outcome = "returned" /\ result \in {Null, Undefined}

\* a finished call of resolveId, in an environment that has a filesystem,
\* for a relative or absolute specifier given with an importer
ResolvedWithImporter ==
    /\ pc = "done"
    /\ hasProcess
    /\ importer # NoImporter
    /\ ~IsBare(importee)

\* the probes of the call that raised an error
RaisedProbes ==
    {k \in 1..Len(probes) :
        LET pr == probes[k] IN
        IF pr.op = "lstat" THEN lstatSync(pr.path).err
        ELSE IF pr.op = "realpath" THEN realpathSync(pr.path).err
        ELSE readdirSync(pr.path).err}

----------------------------------------------------------------------------
(* Properties *)

\* C1: a finished resolveId call for a relative or absolute specifier with an
\* importer returned what verification yields for the first of P, P.mjs, P.js
\* that passes it, and returned "unresolved" when none of the three passes.
C1_FirstCandidateWins ==
    ResolvedWithImporter =>
        LET P == Composed
            passing == Passing(P)
        IN  /\ outcome = "returned"
            /\ IF passing = {} THEN Unresolved
               ELSE result = Verification(Candidates(P)[First(passing)])
            /\ \A i \in 1..3 :
                  (passing # {} /\ i > First(passing)) => found[i] = NoResult

\* C1 witness: P is absent, P.mjs and P.js both verify, and P.mjs was returned
C1_Witness ==
    /\ ResolvedWithImporter
    /\ Passing(Composed) = {2, 3}
    /\ result = PathValue(Composed \o <<".", "m", "j", "s">>)

\* C2: a call for a bare specifier with a defined importer makes no filesystem
\* probe, and where the environment has a filesystem it returns null.
C2_BareSkipsFilesystem ==
    (pc # "idle" /\ importer # NoImporter /\ IsBare(importee)) =>
        /\ probes = <<>>
        /\ nFind = 0
        /\ (pc = "done" /\ hasProcess) => (outcome = "returned" /\ result = Null)

\* C2 witness: the bare specifier a returned null though /d/a is a regular file
C2_Witness ==
    /\ pc = "done"
    /\ hasProcess
    /\ importer # NoImporter
    /\ importee = NameA
    /\ fs[NameA] = RegularFile
    /\ fault = NoFault
    /\ result = Null

\* C3: when the candidate a call returned from is a symbolic link, then with
\* preservation off the result is the link's final real target, which is a
\* listed regular file and not the link's own path, and a link whose target
\* does not verify yields nothing; with preservation on the result is the
\* link's own path.
C3_SymlinkResult ==
    (pc = "done" /\ hasProcess /\ idx >= 1) =>
        \A i \in 1..idx :
            LET c == Candidates(base)[i] IN
            IsLink(c) =>
                IF preserveSymlinks
                THEN /\ found[i] \in {Undefined, PathValue(c)}
                     /\ (i = idx /\ Truthy(result)) => result = PathValue(c)
                ELSE /\ found[i] # PathValue(c)
                     /\ Truthy(found[i]) =>
                           /\ ~realpathSync(c).err
                           /\ found[i] = PathValue(realpathSync(c).path)
                           /\ IsRegular(found[i].path)
                           /\ Listed(found[i].path)
                     /\ (realpathSync(c).err \/ ~IsRegular(realpathSync(c).path))
                           => found[i] = Undefined
                     /\ (i = idx /\ Truthy(result)) => result = found[i]

\* C3 witness: preservation off, /d/a -> t -> a.js, and ./a resolved to /d/a.js
C3_Witness ==
    /\ pc = "done"
    /\ ~preserveSymlinks
    /\ fs[NameA] = LinkTo(NameT)
    /\ fs[NameT] = LinkTo(NameJs)
    /\ fs[NameJs] = RegularFile
    /\ base = InD(NameA)
    /\ idx = 1
    /\ result = PathValue(InD(NameJs))

\* C4: a candidate whose name does not appear with exactly that case in its
\* directory's listing is rejected, whatever the entry's kind and the setting
\* of symlink preservation.
C4_CaseExact ==
    (pc = "done" /\ hasProcess /\ idx >= 1) =>
        \A i \in 1..idx :
            ~Listed(Candidates(base)[i]) => found[i] = Undefined

\* C8: without the host process every call ends in MISSING_PROCESS, with no
\* probe made and no null returned; with it no call ever raises.
C8_EnvironmentError ==
    /\ ~hasProcess =>
          /\ probes = <<>>
          /\ nFind = 0
          /\ pc = "done" => (outcome = "raised" /\ result.tag = "MISSING_PROCESS")
    /\ hasProcess => outcome # "raised"

\* C8 witness: a bare specifier with an importer, and the call raised
C8_Witness ==
    /\ pc = "done"
    /\ ~hasProcess
    /\ importer # NoImporter
    /\ IsBare(importee)
    /\ outcome = "raised"

\* C9: a probe that raises makes its candidate alone absent: the call does
\* not raise, the candidates after it are still tried, and the result is
\* still that of the first candidate that verifies.
C9_ProbeErrorsSuppressed ==
    (hasProcess /\ RaisedProbes # {}) =>
        /\ outcome # "raised"
        /\ pc = "done" =>
              /\ outcome = "returned"
              /\ \A k \in RaisedProbes :
                    /\ found[probes[k].cand] = Undefined
                    /\ probes[k].cand < 3 => found[probes[k].cand + 1] # NoResult
              /\ LET passing == Passing(base) IN
                 IF passing = {} THEN result = Undefined
                 ELSE result = Verification(Candidates(base)[First(passing)])

\* C9 witness: the status lookup of /d/a raised and /d/a.mjs was returned
C9_Witness ==
    /\ pc = "done"
    /\ hasProcess
    /\ fault = [op |-> "lstat", path |-> InD(NameA)]
    /\ 1 \in RaisedProbes
    /\ probes[1].cand = 1
    /\ result = PathValue(InD(NameMjs))

\* a candidate whose link chain never reaches an entry: a cycle or a dangling link
BrokenLink(c) == IsLink(c) /\ realpathSync(c).err

\* what remains of a call: the candidates left, the nesting left, the place
\* within findFile
Rank ==
    IF pc \in {"idle", "done"} THEN 0
    ELSE IF pc = "entry" THEN 40
    ELSE 1 + (3 - idx) * 10 + (2 - depth) * 4
           + (IF pc = "lstat" THEN 3 ELSE IF pc = "realpath" THEN 2
              ELSE IF pc = "readdir" THEN 1 ELSE 0)

\* C10: with preservation off every step of a call in progress lowers Rank,
\* which is never negative, so the call ends after finitely many steps;
\* findFile is never nested more than twice for a candidate (at most six
\* invocations and twelve probes in all); and a candidate whose link chain is a
\* cycle or dangles ends as absent.
C10_Terminates ==
    [][~preserveSymlinks =>
          /\ pc \notin {"idle", "done"} => (Rank' < Rank /\ Rank' >= 0)
          /\ depth' <= 2 /\ nFind' <= 6 /\ Len(probes') <= 12
          /\ (pc = "done" /\ idx >= 1) =>
                \A i \in 1..idx :
                    BrokenLink(Candidates(base)[i]) => found[i] = Undefined]_vars

\* C10 witness: /d/a -> t -> a is a cycle, and the call finished, unresolved
C10_Witness ==
    /\ pc = "done"
    /\ ~preserveSymlinks
    /\ hasProcess
    /\ fs[NameA] = LinkTo(NameT)
    /\ fs[NameT] = LinkTo(NameA)
    /\ base = InD(NameA)
    /\ nFind = 3
    /\ found = [i \in 1..3 |-> Undefined]
    /\ result = Undefined

----------------------------------------------------------------------------
(* Properties of the hooks *)

\* C5: resolveImportMeta returns nothing for a format without an entry in the
\* import-meta table; for amd, cjs, iife, system and umd, with M the entry's
\* expression for the chunk, it returns ({ url: M }) for property null, M for
\* 'url', and the string undefined for any other property.
C5_ImportMetaDispatch ==
    hook.name = "resolveImportMeta" =>
        /\ ~hookRaised
        /\ IF hook.format \notin {"amd", "cjs", "iife", "system", "umd"}
           THEN hookResult = JsUndefined
           ELSE LET M == importMetaUrlMechanisms(hook.format, hook.chunkId) IN
                IF hook.arg = JsNull THEN hookResult = Str("({ url: " \o M \o " })")
                ELSE IF hook.arg = Str("url") THEN hookResult = Str(M)
                ELSE hookResult = Str("undefined")
        /\ (hook.format = "iife" /\ hook.chunkId = "bundle.js" /\ hook.arg = JsNull) =>
              hookResult = Str("({ url: (document.currentScript && document.currentScript.src || new URL('bundle.js', document.baseURI).href) })")

\* C5 witness: property null under iife returned the object expression
C5_Witness ==
    /\ hook.name = "resolveImportMeta"
    /\ hook.format = "iife"
    /\ hook.chunkId = "bundle.js"
    /\ hook.arg = JsNull
    /\ hookResult = Str("({ url: " \o getUrlFromDocument("bundle.js") \o " })")

ResolveIdCalls == {k \in 1..Len(ctxCalls) : ctxCalls[k].fn = "resolveId"}

\* C7: resolveDynamicImport calls resolveId, once, with (specifier, importer),
\* and returns its result, exactly when the specifier is a string that the
\* externality predicate, asked with (specifier, importer, false), reports as
\* not external; otherwise it returns nothing and makes no resolveId call.
C7_DynamicImportDelegates ==
    hook.name = "resolveDynamicImport" =>
        LET isString == hook.arg.kind = "string"
            nonExternal == hook.arg.text \notin external
        IN  /\ ~hookRaised
            /\ \A k \in 1..Len(ctxCalls) :
                  ctxCalls[k].fn = "isExternal" =>
                      ctxCalls[k].args = <<hook.arg, hook.chunkId, FALSE>>
            /\ IF isString /\ nonExternal
               THEN /\ Len(ctxCalls) = 2
                    /\ ctxCalls[1].fn = "isExternal"
                    /\ ctxCalls[2].fn = "resolveId"
                    /\ ctxCalls[2].args = <<hook.arg, hook.chunkId>>
                    /\ hookResult = ctxCalls[2].ret
               ELSE /\ ResolveIdCalls = {}
                    /\ hookResult = JsUndefined

\* C7 witness: the string ./a, not external, was handed to resolveId
C7_Witness ==
    /\ hook.name = "resolveDynamicImport"
    /\ hook.arg = Str("./a")
    /\ "./a" \notin external
    /\ ResolveIdCalls = {2}
    /\ hookResult = Str("/d/a.js")

====
